---- MODULE Spec2Model ----
(***************************************************************************)
(* effect-redis: the core aggregate (core/index.ts), its two orchestration *)
(* operations multi and pipeline, and the Immediate / Queued dispatch      *)
(* tables of the command families, as a state machine over one connection  *)
(* to a key-value store.                                                   *)
(***************************************************************************)
EXTENDS Integers, Sequences, FiniteSets, TLC

(* ------------------------------ bounds -------------------------------- *)
\* runs of the effects returned by multi / pipeline
MaxRuns == 2
\* queued calls the composition functions make, all runs together
MaxQueue == 2
\* Immediate calls issued on the live surface
MaxImm == 1
\* callers issuing Immediate calls concurrently
MaxConcurrent == 2

Runs == 1 .. MaxRuns
Effs == 1 .. MaxRuns
Imms == 1 .. MaxImm
Callers == 1 .. MaxConcurrent

(* ------------------------------ values -------------------------------- *)
\* the live connection handle c; the handles c.multi() returns are 1, 2, ...
LiveClient == 0
Handles == 0 .. MaxRuns
\* the json namespace of a handle (c.json), a handle of its own
JsonOf(c) == c + MaxRuns + 1
IsJson(h) == h > MaxRuns

Keys == {"k"}
Vals == {"v1", "v2"}
\* the reply of get on a key that holds nothing
Nil == "nil"
\* replies of commands whose store semantics are not modelled
OpaqueReplies == {"r0", "r1"}
\* what a Queued callable hands back to the composition function
Void == "void"
\* what a method of a queuing handle returns: the handle, for chaining
Chain == "chain"
\* what the client rejects a command with
Rejections == {"WRONGTYPE", "ECONNRESET"}
\* values a composition function returns
ProgVals == {42, 7}
NoValue == 0 - 1

\* the exec slot: not yet set, the abort sentinel (null), or an array
ExecUnset == [tag |-> "unset", items |-> << >>]
ExecNull == [tag |-> "null", items |-> << >>]
ExecArray(replies) == [tag |-> "array", items |-> replies]

(* ------------------------- command families --------------------------- *)
redisHyperLogLogKeys == {"pfAdd", "pfCount", "pfMerge"}

redisGeoSpatialKeys ==
  {"geoAdd", "geoDist", "geoHash", "geoPos", "geoRadius", "geoRadiusByMember",
   "geoRadiusByMemberRo", "geoRadiusRo", "geoSearch", "geoSearchStore"}

\* the two string commands the orchestration scenarios use
ScenarioKeys == {"get", "set"}

\* the string and generic commands whose names the JSON group shares
redisStringKeys == {"get", "set", "mGet", "mSet", "strLen"}
redisGenericKeys == {"del", "type"}

redisJsonKeys ==
  {"arrAppend", "arrIndex", "arrInsert", "arrLen", "arrPop", "arrTrim", "clear",
   "debugMemory", "del", "forget", "get", "merge", "mGet", "mSet", "numIncrBy",
   "numMultBy", "objKeys", "objLen", "set", "strAppend", "strLen", "toggle",
   "type"}

\* the names both a flat family and the JSON group define
CollidingNames == {"get", "set", "del", "type", "mGet", "mSet", "strLen"}

\* makeCommandGroup(client, keys, exec): one entry per name, bound to the
\* handle, forwarding to the handle's method of the same name.
makeCommandGroup(client, keys, exec) ==
  [n \in keys |-> [handle |-> client, method |-> n, strategy |-> exec]]

\* variant: the Immediate geospatial table built with the Queued strategy
makeRedisGeoSpatialWrongExec(client) ==
  makeCommandGroup(client, redisGeoSpatialKeys, "QueueExec")

\* variant: the Immediate table built with the Queued strategy
makeRedisHyperLogLogWrongExec(client) ==
  makeCommandGroup(client, redisHyperLogLogKeys, "QueueExec")

makeRedisHyperLogLog(client) ==
  makeCommandGroup(client, redisHyperLogLogKeys, "AsyncExec")

makeRedisHyperLogLogQueue(client) ==
  makeCommandGroup(client, redisHyperLogLogKeys, "QueueExec")

makeRedisGeoSpatial(client) ==
  makeCommandGroup(client, redisGeoSpatialKeys, "AsyncExec")

makeRedisGeoSpatialQueue(client) ==
  makeCommandGroup(client, redisGeoSpatialKeys, "QueueExec")

makeRedisString(client) ==
  makeCommandGroup(client, redisStringKeys, "AsyncExec")

makeRedisStringQueue(client) ==
  makeCommandGroup(client, redisStringKeys, "QueueExec")

makeRedisGeneric(client) ==
  makeCommandGroup(client, redisGenericKeys, "AsyncExec")

makeRedisGenericQueue(client) ==
  makeCommandGroup(client, redisGenericKeys, "QueueExec")

\* the JSON tables forward to the methods of the handle's json namespace
makeRedisJson(client) ==
  makeCommandGroup(JsonOf(client), redisJsonKeys, "AsyncExec")

makeRedisJsonQueue(client) ==
  makeCommandGroup(JsonOf(client), redisJsonKeys, "QueueExec")

\* object spread: later tables override earlier ones on a shared name
Spread(t1, t2) ==
  [n \in (DOMAIN t1) \cup (DOMAIN t2) |-> IF n \in DOMAIN t2 THEN t2[n] ELSE t1[n]]

\* { ...t1, ...t2, ..., ...tn }
RECURSIVE SpreadAll(_)
SpreadAll(ts) ==
  IF Len(ts) = 1 THEN ts[1]
  ELSE Spread(SpreadAll(SubSeq(ts, 1, Len(ts) - 1)), ts[Len(ts)])

\* the family tables spread into the flat part of the Queued surface, in
\* the order of the source, the families whose name lists are at hand
\* (generic, hyperLogLog, string, geospatial); every other family is built
\* by the same factory
QueuedFamilies(c) ==
  <<makeRedisGenericQueue(c), makeRedisHyperLogLogQueue(c),
    makeRedisStringQueue(c), makeRedisGeoSpatialQueue(c)>>

\* the same for the Immediate surface
ImmediateFamilies(c) ==
  <<makeRedisGeneric(c), makeRedisHyperLogLog(c), makeRedisString(c),
    makeRedisGeoSpatial(c)>>

\* variant: the JSON table spread into the flat part, after the families
makeRedisTxJsonSpread(c) ==
  Spread(SpreadAll(QueuedFamilies(c)), makeRedisJsonQueue(c))

\* variant: the Queued surface built from the Immediate tables
makeRedisTxAsync(c) == SpreadAll(ImmediateFamilies(c))

\* the flat part of the Queued surface
makeRedisTx(c) == SpreadAll(QueuedFamilies(c))

\* json: json.makeRedisJsonQueue(c), the nested part of the Queued surface
makeRedisTxJson(c) == makeRedisJsonQueue(c)

\* variant: the JSON table spread into the flat part, after the families
makeRedisCoreJsonSpread(c) ==
  Spread(SpreadAll(ImmediateFamilies(c)), makeRedisJson(c))

\* the flat Immediate part of the core aggregate
makeRedisCore(c) == SpreadAll(ImmediateFamilies(c))

\* json: json.makeRedisJson(c), the nested part of the core aggregate
makeRedisCoreJson(c) == makeRedisJson(c)

(* ------------------------------ the store ----------------------------- *)
\* argument lists a caller passes
ArgLists(name) ==
  IF name = "get" THEN {<<k>> : k \in Keys}
  ELSE IF name = "set" THEN {<<k, v>> : k \in Keys, v \in Vals}
  ELSE {<<k>> : k \in Keys} \cup {<<k, v>> : k \in Keys, v \in Vals}

\* the command the store receives for a method of a handle: a method of
\* the json namespace is a JSON command, which the store answers opaquely
Command(h, method) == IF IsJson(h) THEN "json" ELSE method

\* the replies the store can give to one command in state st
Replies(st, method, args) ==
  IF method = "get" THEN {st[args[1]]}
  ELSE IF method = "set" THEN {"OK"}
  ELSE OpaqueReplies

\* the store after one command
Apply(st, method, args) ==
  IF method = "set" THEN [st EXCEPT ![args[1]] = args[2]] ELSE st

\* every way the store can run a whole batch q from state st:
\* the resulting store and the replies, one per command, in order
RECURSIVE BatchRuns(_, _)
BatchRuns(st, q) ==
  IF q = << >> THEN {[store |-> st, replies |-> << >>]}
  ELSE UNION {
         {[store |-> t.store, replies |-> <<rep>> \o t.replies] :
            t \in BatchRuns(Apply(st, q[1].method, q[1].args), Tail(q))} :
         rep \in Replies(st, q[1].method, q[1].args)}

\* the applied-command records of a batch q executed by one run
Applied(q, replies) ==
  [i \in 1 .. Len(q) |->
     [by |-> q[i].by, method |-> q[i].method, args |-> q[i].args,
      reply |-> replies[i]]]

(* ------------------------------ state --------------------------------- *)
VARIABLES
  effKind,        \* effect e: "none", or which operation returned it
  pc,             \* run r: idle, build, ready, inflight, end
  effOf,          \* run r: the effect it runs
  handle,         \* run r: txClient
  issued,         \* run r: the queued calls its composition function made
  programResult,  \* run r: the composition function's value
  pair,           \* run r: the Outcome Pair it returned
  outcome,        \* run r: none, success, RedisError, defect, interrupted
  cause,          \* run r: the cause its RedisError carries
  replies,        \* run r: replies received so far by execAsPipeline
  nextHandle,     \* the next handle c.multi() creates
  hq,             \* handle h: its accumulated batch
  store,          \* the store's keys
  app,            \* run r: the commands the store applied for it, in order
  discarded,      \* run r: the store discarded its transaction
  imm,            \* Immediate call i
  invoked,        \* run r: the batch-execute operations it invoked, in order
  layer           \* the construction of RedisCoreLive and its probe

vars ==
  <<effKind, pc, effOf, handle, issued, programResult, pair, outcome, cause,
    replies, nextHandle, hq, store, app, discarded, imm, invoked, layer>>

runVars ==
  <<pc, effOf, handle, issued, programResult, pair, outcome, cause, replies,
    invoked>>

NoPair == [result |-> NoValue, exec |-> ExecUnset]

ImmIdle ==
  [pc |-> "idle", name |-> "", args |-> << >>, method |-> "", fargs |-> << >>,
   strategy |-> "", reply |-> "", result |-> "", outcome |-> "none",
   rejection |-> "none", cause |-> "none", calls |-> 0,
   ns |-> "", handle |-> LiveClient]

\* the layer before RedisCoreLive is built
LayerNone == [core |-> "none", probe |-> "none", probes |-> 0]
\* the layer built, its probe answered
LayerBuilt == [core |-> "built", probe |-> "resolved", probes |-> 1]

Init ==
  /\ effKind = [e \in Effs |-> "none"]
  /\ pc = [r \in Runs |-> "idle"]
  /\ effOf = [r \in Runs |-> 0]
  /\ handle = [r \in Runs |-> LiveClient]
  /\ issued = [r \in Runs |-> << >>]
  /\ programResult = [r \in Runs |-> NoValue]
  /\ pair = [r \in Runs |-> NoPair]
  /\ outcome = [r \in Runs |-> "none"]
  /\ cause = [r \in Runs |-> "none"]
  /\ replies = [r \in Runs |-> << >>]
  /\ nextHandle = 1
  /\ hq = [h \in Handles |-> << >>]
  /\ store = [k \in Keys |-> Nil]
  /\ app = [r \in Runs |-> << >>]
  /\ discarded = [r \in Runs |-> FALSE]
  /\ imm = [i \in Callers |-> ImmIdle]
  /\ invoked = [r \in Runs |-> << >>]
  /\ layer = LayerBuilt

(* --------------------- multi(program), pipeline(program) -------------- *)
\* variant: the call itself acquires a handle from the client
CreateEager(e, kind) ==
  /\ effKind[e] = "none"
  /\ \A e2 \in Effs : e2 < e => effKind[e2] # "none"
  /\ effKind' = [effKind EXCEPT ![e] = kind]
  /\ nextHandle' = nextHandle + 1
  /\ UNCHANGED <<runVars, hq, store, app, discarded, imm, layer>>

\* the call itself only builds the effect
Create(e, kind) ==
  /\ effKind[e] = "none"
  /\ \A e2 \in Effs : e2 < e => effKind[e2] # "none"
  /\ effKind' = [effKind EXCEPT ![e] = kind]
  /\ UNCHANGED <<runVars, nextHandle, hq, store, app, discarded, imm, layer>>

CallMulti(e) == Create(e, "multi")

CallPipeline(e) == Create(e, "pipeline")

kind(r) == effKind[effOf[r]]

\* variant: c.multi() hoisted out of the generator, one handle per effect
AcquireHandleHoisted(r, e) == e

\* const txClient = c.multi(), evaluated when a run of effect e starts
AcquireHandle(r, e) == nextHandle

\* variant: the surface built on the live client c
TxApiLive(r) == makeRedisTx(LiveClient)

\* const txApi = makeRedisTx(txClient)
TxApi(r) == makeRedisTx(handle[r])

CanStart(r, e) ==
  /\ pc[r] = "idle"
  /\ \A r2 \in Runs : r2 < r => pc[r2] # "idle"
  /\ effKind[e] # "none"

\* Open: a run of the effect acquires its handle and builds the surface
Open(r, e) ==
  /\ CanStart(r, e)
  /\ handle' = [handle EXCEPT ![r] = AcquireHandle(r, e)]
  /\ nextHandle' = nextHandle + 1
  /\ effOf' = [effOf EXCEPT ![r] = e]
  /\ pc' = [pc EXCEPT ![r] = "build"]
  /\ UNCHANGED <<effKind, issued, programResult, pair, outcome, cause, replies,
                 hq, store, app, discarded, imm, layer, invoked>>

\* c.multi() or makeRedisTx throws inside the generator: the run dies
OpenThrows(r, e) ==
  /\ CanStart(r, e)
  /\ effOf' = [effOf EXCEPT ![r] = e]
  /\ pc' = [pc EXCEPT ![r] = "end"]
  /\ outcome' = [outcome EXCEPT ![r] = "defect"]
  /\ cause' = [cause EXCEPT ![r] = "open"]
  /\ UNCHANGED <<effKind, handle, issued, programResult, pair, replies,
                 nextHandle, hq, store, app, discarded, imm, layer, invoked>>

\* the number of queued calls made so far by the runs in rs
RECURSIVE QueuedCalls(_)
QueuedCalls(rs) ==
  IF rs = {} THEN 0
  ELSE LET r == CHOOSE x \in rs : TRUE IN Len(issued[r]) + QueuedCalls(rs \ {r})

\* how a strategy adapts the value the handle's method returned
Adapt(strategy, reply) == IF strategy = "AsyncExec" THEN reply ELSE Void

\* Build: the composition function calls tx[name](...args); the entry
\* forwards to the method of its handle: a queuing handle records the
\* command, the live client would send it to the store
QueuedCall(r, name, args) ==
  /\ pc[r] = "build"
  /\ QueuedCalls(Runs) < MaxQueue
  /\ LET entry == TxApi(r)[name] IN
       IF entry.handle = LiveClient
       THEN \E rep \in Replies(store, entry.method, args) :
              /\ store' = Apply(store, entry.method, args)
              /\ app' = [app EXCEPT ![r] = Append(@,
                           [by |-> r, method |-> entry.method, args |-> args,
                            reply |-> rep])]
              /\ hq' = hq
              /\ issued' = [issued EXCEPT ![r] = Append(@,
                              [method |-> name, args |-> args,
                               got |-> Adapt(entry.strategy, rep)])]
       ELSE /\ hq' = [hq EXCEPT ![entry.handle] = Append(@,
                         [by |-> r, method |-> entry.method, args |-> args])]
            /\ issued' = [issued EXCEPT ![r] = Append(@,
                            [method |-> name, args |-> args,
                             got |-> Adapt(entry.strategy, Chain)])]
            /\ UNCHANGED <<store, app>>
  /\ UNCHANGED <<effKind, pc, effOf, handle, programResult, pair, outcome, cause,
                 replies, nextHandle, discarded, imm, layer, invoked>>

\* const programResult = yield* program(txApi), the program succeeding
ProgramSucceed(r, v) ==
  /\ pc[r] = "build"
  /\ programResult' = [programResult EXCEPT ![r] = v]
  /\ pc' = [pc EXCEPT ![r] = "ready"]
  /\ UNCHANGED <<effKind, effOf, handle, issued, pair, outcome, cause, replies,
                 nextHandle, hq, store, app, discarded, imm, layer, invoked>>

\* variant: the program's failure noted and the batch executed all the same
ProgramFailExecutes(r) ==
  /\ pc[r] = "build"
  /\ pc' = [pc EXCEPT ![r] = "ready"]
  /\ outcome' = [outcome EXCEPT ![r] = "RedisError"]
  /\ cause' = [cause EXCEPT ![r] = "program"]
  /\ UNCHANGED <<effKind, effOf, handle, issued, programResult, pair, replies,
                 nextHandle, hq, store, app, discarded, imm, layer, invoked>>

\* yield* program(txApi), the program failing with its RedisError
ProgramFail(r) ==
  /\ pc[r] = "build"
  /\ pc' = [pc EXCEPT ![r] = "end"]
  /\ outcome' = [outcome EXCEPT ![r] = "RedisError"]
  /\ cause' = [cause EXCEPT ![r] = "program"]
  /\ UNCHANGED <<effKind, effOf, handle, issued, programResult, pair, replies,
                 nextHandle, hq, store, app, discarded, imm, layer, invoked>>

\* variant: an interruption that runs the batch on its way out
CancelExecutes(r) ==
  /\ pc[r] \in {"build", "ready"}
  /\ pc' = [pc EXCEPT ![r] = "end"]
  /\ outcome' = [outcome EXCEPT ![r] = "interrupted"]
  /\ \E t \in BatchRuns(store, hq[handle[r]]) :
       /\ store' = t.store
       /\ app' = [app EXCEPT ![r] = @ \o Applied(hq[handle[r]], t.replies)]
  /\ UNCHANGED <<effKind, effOf, handle, issued, programResult, pair, cause,
                 replies, nextHandle, hq, discarded, imm, layer, invoked>>

\* the fiber is interrupted at a yield before the batch is executed: while
\* program(txApi) runs, or before the tryPromise of exec starts
Cancel(r) ==
  /\ pc[r] \in {"build", "ready"}
  /\ pc' = [pc EXCEPT ![r] = "end"]
  /\ outcome' = [outcome EXCEPT ![r] = "interrupted"]
  /\ UNCHANGED <<effKind, effOf, handle, issued, programResult, pair, cause,
                 replies, nextHandle, hq, store, app, discarded, imm, layer, invoked>>

\* variant: multi executing as a pipeline
MultiExecOpPipelined == "execAsPipeline"

\* try: () => txClient.exec()
MultiExecOp == "exec"

\* variant: pipeline executing atomically
PipelineExecOpAtomic == "exec"

\* try: () => txClient.execAsPipeline()
PipelineExecOp == "execAsPipeline"

ExecOp(r) == IF kind(r) = "multi" THEN MultiExecOp ELSE PipelineExecOp

\* variant: a resolved null treated as a rejection
TryPromiseNullFails(s) ==
  IF s.ok /\ s.value # ExecNull
  THEN [tag |-> "success", value |-> s.value, cause |-> "none"]
  ELSE [tag |-> "RedisError", value |-> ExecUnset, cause |-> s.err]

\* Effect.tryPromise({ catch: e => new RedisError({ cause: e }), try })
TryPromise(s) ==
  IF s.ok
  THEN [tag |-> "success", value |-> s.value, cause |-> "none"]
  ELSE [tag |-> "RedisError", value |-> ExecUnset, cause |-> s.err]

Reverse(seq) == [i \in 1 .. Len(seq) |-> seq[Len(seq) + 1 - i]]

\* variant: the replies handed back in reverse
OutcomePairReversed(result, exec) ==
  [result |-> result, exec |-> [exec EXCEPT !.items = Reverse(@)]]

\* variant: the program's value dropped
OutcomePairNoResult(result, exec) == [result |-> NoValue, exec |-> exec]

\* return [programResult, execResult] as const
OutcomePair(result, exec) == [result |-> result, exec |-> exec]

\* variant: a rejected execution sends the run back to execute again
FinishRetries(r, s) ==
  LET t == TryPromise(s) IN
    IF t.tag = "success"
    THEN /\ pc' = [pc EXCEPT ![r] = "end"]
         /\ pair' = [pair EXCEPT ![r] = OutcomePair(programResult[r], t.value)]
         /\ outcome' = [outcome EXCEPT ![r] = "success"]
         /\ cause' = cause
    ELSE /\ pc' = [pc EXCEPT ![r] = "ready"]
         /\ UNCHANGED <<pair, outcome, cause>>

\* Finish: the promise of the batch execution settles as s
Finish(r, s) ==
  LET t == TryPromise(s) IN
    /\ pc' = [pc EXCEPT ![r] = "end"]
    /\ IF t.tag = "success"
       THEN /\ pair' = [pair EXCEPT ![r] = OutcomePair(programResult[r], t.value)]
            /\ outcome' = [outcome EXCEPT ![r] = "success"]
            /\ cause' = cause
       ELSE /\ outcome' = [outcome EXCEPT ![r] = t.tag]
            /\ cause' = [cause EXCEPT ![r] = t.cause]
            /\ pair' = pair

Resolved(value) == [ok |-> TRUE, value |-> value, err |-> "none"]
Rejected(err) == [ok |-> FALSE, value |-> ExecUnset, err |-> err]

\* Execute, atomic: the store runs the whole batch in one step, or discards
\* it, or the call is rejected
AtomicExec(r, o) ==
  /\ pc[r] = "ready"
  /\ ExecOp(r) = "exec"
  /\ LET q == hq[handle[r]] IN
       \/ /\ o = "ok"
          /\ \E t \in BatchRuns(store, q) :
               /\ store' = t.store
               /\ app' = [app EXCEPT ![r] = @ \o Applied(q, t.replies)]
               /\ Finish(r, Resolved(ExecArray(t.replies)))
          /\ UNCHANGED discarded
       \/ /\ o = "discard"
          /\ discarded' = [discarded EXCEPT ![r] = TRUE]
          /\ Finish(r, Resolved(ExecNull))
          /\ UNCHANGED <<store, app>>
       \/ /\ o = "fault"
          /\ Finish(r, Rejected("exec"))
          /\ UNCHANGED <<store, app, discarded>>
  /\ invoked' = [invoked EXCEPT ![r] = Append(@, ExecOp(r))]
  /\ UNCHANGED <<effKind, effOf, handle, issued, programResult, replies,
                 nextHandle, hq, imm, layer>>

\* Execute, pipelined: the batch is sent
PipeSend(r) ==
  /\ pc[r] = "ready"
  /\ ExecOp(r) = "execAsPipeline"
  /\ pc' = [pc EXCEPT ![r] = "inflight"]
  /\ invoked' = [invoked EXCEPT ![r] = Append(@, ExecOp(r))]
  /\ UNCHANGED <<effKind, effOf, handle, issued, programResult, pair, outcome,
                 cause, replies, nextHandle, hq, store, app, discarded, imm,
                 layer>>

\* the store applies the next command of a pipelined batch
PipeApply(r) ==
  /\ pc[r] = "inflight"
  /\ LET q == hq[handle[r]]
         i == Len(replies[r]) + 1
     IN /\ i <= Len(q)
        /\ \E rep \in Replies(store, q[i].method, q[i].args) :
             /\ store' = Apply(store, q[i].method, q[i].args)
             /\ app' = [app EXCEPT ![r] = Append(@,
                          [by |-> q[i].by, method |-> q[i].method,
                           args |-> q[i].args, reply |-> rep])]
             /\ replies' = [replies EXCEPT ![r] = Append(@, rep)]
  /\ UNCHANGED <<effKind, pc, effOf, handle, issued, programResult, pair, outcome,
                 cause, nextHandle, hq, discarded, imm, layer, invoked>>

\* every reply of the pipelined batch has arrived
PipeReply(r) ==
  /\ pc[r] = "inflight"
  /\ Len(replies[r]) = Len(hq[handle[r]])
  /\ Finish(r, Resolved(ExecArray(replies[r])))
  /\ UNCHANGED <<effKind, effOf, handle, issued, programResult, replies,
                 nextHandle, hq, store, app, discarded, imm, layer, invoked>>

\* the pipelined execution is rejected, some of the batch possibly applied
PipeFault(r) ==
  /\ pc[r] = "inflight"
  /\ Finish(r, Rejected("exec"))
  /\ UNCHANGED <<effKind, effOf, handle, issued, programResult, replies,
                 nextHandle, hq, store, app, discarded, imm, layer, invoked>>

(* --------------------------- Immediate calls -------------------------- *)
\* the caller calls an entry of the live surface with its arguments
ImmDispatch(i, ns, name, entry, args) ==
  /\ layer.core = "built"
  /\ imm[i].pc = "idle"
  /\ \A j \in Callers : j < i => imm[j].pc # "idle"
  /\ imm' = [imm EXCEPT ![i] =
               [@ EXCEPT !.pc = "inflight", !.name = name, !.args = args,
                         !.method = entry.method, !.fargs = args,
                         !.strategy = entry.strategy, !.calls = @ + 1,
                         !.ns = ns, !.handle = entry.handle]]

\* the caller runs redis[name](...args) on the live surface
ImmCall(i, name, args) ==
  /\ ImmDispatch(i, "flat", name, makeRedisCore(LiveClient)[name], args)
  /\ UNCHANGED <<effKind, runVars, nextHandle, hq, store, app, discarded, layer>>

\* the caller runs redis.json[name](...args) on the live surface
ImmCallJson(i, name, args) ==
  /\ ImmDispatch(i, "json", name, makeRedisCoreJson(LiveClient)[name], args)
  /\ UNCHANGED <<effKind, runVars, nextHandle, hq, store, app, discarded, layer>>

\* the store runs the command and the client's promise resolves
ImmSettle(i) ==
  /\ imm[i].pc = "inflight"
  /\ \E rep \in Replies(store, Command(imm[i].handle, imm[i].method), imm[i].fargs) :
       /\ store' = Apply(store, Command(imm[i].handle, imm[i].method), imm[i].fargs)
       /\ imm' = [imm EXCEPT ![i] =
                    [@ EXCEPT !.pc = "done", !.reply = rep,
                              !.result = Adapt(imm[i].strategy, rep),
                              !.outcome = "success"]]
  /\ UNCHANGED <<effKind, runVars, nextHandle, hq, app, discarded, layer>>

\* how a strategy adapts a rejection of the promise the method returned:
\* AsyncExec awaits the promise and wraps the rejection, QueueExec never
\* looks at the value returned
AdaptRejection(strategy, err) ==
  IF strategy = "AsyncExec"
  THEN [outcome |-> "RedisError", cause |-> err, result |-> ""]
  ELSE [outcome |-> "success", cause |-> "none", result |-> Void]

\* the client's promise rejects
ImmFail(i) ==
  /\ imm[i].pc = "inflight"
  /\ \E err \in Rejections :
       LET a == AdaptRejection(imm[i].strategy, err) IN
         imm' = [imm EXCEPT ![i] =
                   [@ EXCEPT !.pc = "done", !.rejection = err,
                             !.outcome = a.outcome, !.cause = a.cause,
                             !.result = a.result]]
  /\ UNCHANGED <<effKind, runVars, nextHandle, hq, store, app, discarded, layer>>

(* ------------------------ RedisCoreLive, the layer -------------------- *)
\* the layer is built: client.eval(...) is called, the promise it returns
\* is neither awaited nor yielded, and makeRedisCore(client) is returned
Construct ==
  /\ layer.core = "none"
  /\ layer' = [core |-> "built", probe |-> "pending", probes |-> layer.probes + 1]
  /\ UNCHANGED <<effKind, runVars, nextHandle, hq, store, app, discarded, imm>>

\* client.eval(...) throws inside the generator: the construction dies
ConstructThrows ==
  /\ layer.core = "none"
  /\ layer' = [core |-> "died", probe |-> "none", probes |-> layer.probes + 1]
  /\ UNCHANGED <<effKind, runVars, nextHandle, hq, store, app, discarded, imm>>

\* the store answers the probe
ProbeResolve ==
  /\ layer.probe = "pending"
  /\ layer' = [layer EXCEPT !.probe = "resolved"]
  /\ UNCHANGED <<effKind, runVars, nextHandle, hq, store, app, discarded, imm>>

\* the probe's promise rejects: nothing holds the promise
ProbeReject ==
  /\ layer.probe = "pending"
  /\ layer' = [layer EXCEPT !.probe = "rejected"]
  /\ UNCHANGED <<effKind, runVars, nextHandle, hq, store, app, discarded, imm>>

(* --------------------------- specifications --------------------------- *)
\* orchestration runs, with string commands issued beside them
Next ==
  \/ \E e \in Effs : CallMulti(e)
  \/ \E e \in Effs : CallPipeline(e)
  \/ \E r \in Runs, e \in Effs : Open(r, e)
  \/ \E r \in Runs, e \in Effs : OpenThrows(r, e)
  \/ \E r \in Runs, name \in ScenarioKeys :
       \E args \in ArgLists(name) : QueuedCall(r, name, args)
  \/ \E r \in Runs, v \in ProgVals : ProgramSucceed(r, v)
  \/ \E r \in Runs : ProgramFail(r)
  \/ \E r \in Runs : Cancel(r)
  \/ \E r \in Runs, o \in {"ok", "discard", "fault"} : AtomicExec(r, o)
  \/ \E r \in Runs : PipeSend(r)
  \/ \E r \in Runs : PipeApply(r)
  \/ \E r \in Runs : PipeReply(r)
  \/ \E r \in Runs : PipeFault(r)
  \/ \E i \in Imms : \E args \in ArgLists("set") : ImmCall(i, "set", args)
  \/ \E i \in Imms : ImmSettle(i)
  \/ \E i \in Imms : ImmFail(i)

Spec == Init /\ [][Next]_vars

\* Immediate calls of every family on the live surface
NextImmediate ==
  \/ \E i \in Imms, name \in DOMAIN makeRedisCore(LiveClient) :
       \E args \in ArgLists(name) : ImmCall(i, name, args)
  \/ \E i \in Imms, name \in DOMAIN makeRedisCoreJson(LiveClient) :
       \E args \in ArgLists(name) : ImmCallJson(i, name, args)
  \/ \E i \in Imms : ImmSettle(i)
  \/ \E i \in Imms : ImmFail(i)

SpecImmediate == Init /\ [][NextImmediate]_vars

\* the layer from before its construction, then Immediate calls on it
InitConstruct ==
  /\ effKind = [e \in Effs |-> "none"]
  /\ pc = [r \in Runs |-> "idle"]
  /\ effOf = [r \in Runs |-> 0]
  /\ handle = [r \in Runs |-> LiveClient]
  /\ issued = [r \in Runs |-> << >>]
  /\ programResult = [r \in Runs |-> NoValue]
  /\ pair = [r \in Runs |-> NoPair]
  /\ outcome = [r \in Runs |-> "none"]
  /\ cause = [r \in Runs |-> "none"]
  /\ replies = [r \in Runs |-> << >>]
  /\ nextHandle = 1
  /\ hq = [h \in Handles |-> << >>]
  /\ store = [k \in Keys |-> Nil]
  /\ app = [r \in Runs |-> << >>]
  /\ discarded = [r \in Runs |-> FALSE]
  /\ imm = [i \in Callers |-> ImmIdle]
  /\ invoked = [r \in Runs |-> << >>]
  /\ layer = LayerNone

NextConstruct ==
  \/ Construct
  \/ ConstructThrows
  \/ ProbeResolve
  \/ ProbeReject
  \/ \E i \in Imms, name \in DOMAIN makeRedisCore(LiveClient) :
       \E args \in ArgLists(name) : ImmCall(i, name, args)
  \/ \E i \in Imms : ImmSettle(i)
  \/ \E i \in Imms : ImmFail(i)

SpecConstruct == InitConstruct /\ [][NextConstruct]_vars

\* callers reading and writing the same keys concurrently on the live surface
NextConcurrent ==
  \/ \E i \in Callers, name \in ScenarioKeys :
       \E args \in ArgLists(name) : ImmCall(i, name, args)
  \/ \E i \in Callers : ImmSettle(i)
  \/ \E i \in Callers : ImmFail(i)

SpecConcurrent == Init /\ [][NextConcurrent]_vars

(* ---------------------------- properties ------------------------------ *)
Started(r) == pc[r] # "idle"
IsMulti(r) == Started(r) /\ kind(r) = "multi"
IsPipeline(r) == Started(r) /\ kind(r) = "pipeline"
Succeeded(r) == outcome[r] = "success"

\* the commands the store applied for run r are exactly the calls the run's
\* composition function made, in the order it made them, each queued by r
AppliedAsQueued(r) ==
  /\ Len(app[r]) = Len(issued[r])
  /\ \A n \in 1 .. Len(issued[r]) :
       /\ app[r][n].method = issued[r][n].method
       /\ app[r][n].args = issued[r][n].args
       /\ app[r][n].by = r

\* C1: while a run of multi or pipeline is still in Open or Build (its batch
\* not yet handed to exec / execAsPipeline), the store has applied none of
\* the commands queued in it and no reply or Outcome Pair exists for it.
C1_NothingAppliedBeforeExecute ==
  \A r \in Runs :
    pc[r] \in {"build", "ready"} =>
      /\ app[r] = << >>
      /\ replies[r] = << >>
      /\ pair[r] = NoPair

\* a run has finished Build with two commands queued, one of them a write
C1_Witness ==
  \E r \in Runs :
    /\ pc[r] = "ready"
    /\ Len(issued[r]) = 2
    /\ \E n \in 1 .. 2 : issued[r][n].method = "set"

\* C2: a run that finishes with a result sequence had its queued commands
\* applied by the store in exactly the order they were queued, and the n-th
\* entry of execResults is the reply to the n-th queued call, for all n.
C2_ResultsInQueueOrder ==
  \A r \in Runs :
    (Succeeded(r) /\ pair[r].exec.tag = "array") =>
      /\ Len(pair[r].exec.items) = Len(issued[r])
      /\ AppliedAsQueued(r)
      /\ \A n \in 1 .. Len(issued[r]) : pair[r].exec.items[n] = app[r][n].reply

\* a run returned the replies of a write followed by a read of the same key
C2_Witness ==
  \E r \in Runs :
    /\ Succeeded(r)
    /\ Len(issued[r]) = 2
    /\ issued[r][1].method = "set"
    /\ issued[r][2].method = "get"
    /\ pair[r].exec = ExecArray(<<"OK", issued[r][1].args[2]>>)

\* C3: a run of multi succeeds with the abort sentinel in the exec slot
\* exactly when the store discarded its transaction; that run is a success
\* carrying programResult; every other successful run of multi carries the
\* complete result sequence, one entry per queued call.
C3_NullIffDiscarded ==
  \A r \in Runs :
    IsMulti(r) =>
      /\ discarded[r] =>
           /\ Succeeded(r)
           /\ pair[r] = [result |-> programResult[r], exec |-> ExecNull]
      /\ (Succeeded(r) /\ pair[r].exec = ExecNull) => discarded[r]
      /\ (Succeeded(r) /\ ~discarded[r]) =>
           /\ pair[r].exec.tag = "array"
           /\ Len(pair[r].exec.items) = Len(issued[r])

\* a multi with queued commands was discarded and still returned its pair
C3_Witness ==
  \E r \in Runs :
    /\ IsMulti(r)
    /\ discarded[r]
    /\ Succeeded(r)
    /\ Len(issued[r]) = 2
    /\ pair[r].result \in ProgVals

\* C4: the exec slot of a pipeline's successful outcome is never the abort
\* sentinel; a rejected execution makes the run fail with no Outcome Pair.
C4_PipelineNeverNull ==
  \A r \in Runs :
    IsPipeline(r) =>
      /\ pair[r].exec # ExecNull
      /\ ~discarded[r]
      /\ Succeeded(r) => pair[r].exec.tag = "array"
      /\ cause[r] = "exec" => (outcome[r] = "RedisError" /\ pair[r] = NoPair)

\* one pipeline returned its result sequence, another failed in execution
\* after part of its batch was applied
C4_Witness ==
  \E r1, r2 \in Runs :
    /\ IsPipeline(r1) /\ Succeeded(r1) /\ Len(pair[r1].exec.items) = 1
    /\ IsPipeline(r2) /\ cause[r2] = "exec" /\ Len(app[r2]) = 1

\* C5: a failure in any step between Open and Execute makes the run fail
\* with RedisError carrying the cause, and no Outcome Pair is produced.
C5_EveryFailureIsRedisError ==
  \A r \in Runs :
    (pc[r] = "end" /\ outcome[r] \notin {"success", "interrupted"}) =>
      /\ outcome[r] = "RedisError"
      /\ cause[r] # "none"
      /\ pair[r] = NoPair

\* C6 as stated: every successful outcome has programResult equal to the
\* value the composition function returned and execResults of length k,
\* the number of queued calls.
C6_Original ==
  \A r \in Runs :
    Succeeded(r) =>
      /\ pair[r].result = programResult[r]
      /\ pair[r].exec.tag = "array"
      /\ Len(pair[r].exec.items) = Len(issued[r])

\* C6, amended: every successful outcome has programResult equal to the
\* value the composition function returned, whatever the replies; unless
\* the store discarded the transaction, the batch was executed and
\* execResults has length k, the number of queued calls (k = 0 included).
C6_ResultIndependentOfReplies ==
  \A r \in Runs :
    Succeeded(r) =>
      /\ pair[r].result = programResult[r]
      /\ pair[r].result \in ProgVals
      /\ ~discarded[r] =>
           /\ pair[r].exec.tag = "array"
           /\ Len(pair[r].exec.items) = Len(issued[r])
           /\ Len(app[r]) = Len(issued[r])

\* a pipeline queued one set and returned 42: programResult 42 and one exec
\* result; another run queued nothing and still returned its value
C6_Witness ==
  \E r1, r2 \in Runs :
    /\ IsPipeline(r1) /\ Succeeded(r1)
    /\ Len(issued[r1]) = 1 /\ issued[r1][1].method = "set"
    /\ pair[r1].result = 42 /\ Len(pair[r1].exec.items) = 1
    /\ Succeeded(r2) /\ issued[r2] = << >>
    /\ pair[r2] = [result |-> 7, exec |-> ExecArray(<< >>)]

\* C7: in every reachable state a run of multi has either none of its
\* queued commands applied or all of them, in order; every other caller's
\* command is applied in a step of its own, so none falls between them.
C7_MultiAllOrNothing ==
  \A r \in Runs :
    IsMulti(r) =>
      /\ app[r] = << >> \/ AppliedAsQueued(r)
      /\ discarded[r] => app[r] = << >>

\* a multi applied its two commands while an Immediate write and the other
\* run were active on the same connection
C7_Witness ==
  \E r \in Runs :
    /\ IsMulti(r)
    /\ Len(app[r]) = 2
    /\ \E i \in Imms : imm[i].pc = "done"
    /\ \E r2 \in Runs \ {r} : Started(r2)

\* C8: two runs never hold the same queuing handle; every command in a
\* handle's batch was queued by the run that holds the handle; every command
\* the store applied for a run, and so every entry of its execResults, was
\* queued by that run.
C8_HandleExclusive ==
  /\ \A r1, r2 \in Runs :
       (r1 # r2 /\ handle[r1] # LiveClient /\ handle[r2] # LiveClient) =>
         handle[r1] # handle[r2]
  /\ \A r \in Runs :
       /\ \A n \in 1 .. Len(app[r]) : app[r][n].by = r
       /\ handle[r] # LiveClient =>
            \A n \in 1 .. Len(hq[handle[r]]) : hq[handle[r]][n].by = r
       /\ Len(pair[r].exec.items) <= Len(issued[r])

\* two runs of the same returned effect each executed a batch of their own
C8_Witness ==
  /\ MaxRuns >= 2
  /\ effOf[1] = effOf[2]
  /\ \A r \in {1, 2} :
       Succeeded(r) /\ Len(issued[r]) = 1 /\ Len(pair[r].exec.items) = 1

\* C9: a run cancelled before Execute has none of its queued commands
\* applied, in the state of the cancellation and in every later one.
C9_CancelledNeverApplied ==
  \A r \in Runs : outcome[r] = "interrupted" => app[r] = << >>

\* a run was cancelled with two commands queued, and the connection went on
\* to serve another caller
C9_Witness ==
  \E r \in Runs :
    /\ outcome[r] = "interrupted"
    /\ Len(issued[r]) = 2
    /\ \E i \in Imms : imm[i].pc = "done"

\* C10: a successful Immediate call hands the client's method of the same
\* name the caller's arguments unchanged, and yields exactly the value that
\* method returned.
C10_ImmediateYieldsClientValue ==
  \A i \in Imms :
    /\ imm[i].pc # "idle" => (imm[i].method = imm[i].name /\ imm[i].fargs = imm[i].args)
    /\ (imm[i].pc = "done" /\ imm[i].outcome = "success") =>
         imm[i].result = imm[i].reply

\* pfAdd called with two arguments succeeded with the client's reply
C10_Witness ==
  \E i \in Imms :
    /\ imm[i].pc = "done"
    /\ imm[i].outcome = "success"
    /\ imm[i].name = "pfAdd"
    /\ Len(imm[i].args) = 2
    /\ imm[i].result \in OpaqueReplies

\* C11: an Immediate call whose client call was rejected has failed with
\* RedisError whose cause is that very rejection: it is not a success, it
\* carries no value, and it has no other outcome.
C11_RejectionWrappedInRedisError ==
  \A i \in Imms :
    /\ imm[i].rejection # "none" =>
         /\ imm[i].pc = "done"
         /\ imm[i].outcome = "RedisError"
         /\ imm[i].cause = imm[i].rejection
         /\ imm[i].result = ""
    /\ imm[i].outcome = "RedisError" => imm[i].cause \in Rejections

\* pfCount or geoAdd was rejected by the store with WRONGTYPE
C11_Witness ==
  \E i \in Imms :
    /\ imm[i].name \in {"pfCount", "geoAdd"}
    /\ imm[i].rejection = "WRONGTYPE"
    /\ imm[i].outcome = "RedisError"
    /\ imm[i].cause = "WRONGTYPE"

\* C12: building RedisCoreLive issues one probe, and a probe that fails
\* makes the construction fail: the layer is never built with its probe
\* rejected.
C12_ProbeFailureFailsConstruction ==
  /\ layer.core # "none" => layer.probes = 1
  /\ layer.probe = "rejected" => layer.core # "built"

\* C13: no run of multi or pipeline invokes the batch-execute operation of
\* its handle more than once, a run whose execution was rejected included;
\* a run that returned a pair or failed in execution invoked it exactly
\* once; every Immediate call invoked the client's method exactly once,
\* whether it succeeded or was rejected.
C13_NoRetries ==
  /\ \A r \in Runs :
       /\ Len(invoked[r]) <= 1
       /\ (Succeeded(r) \/ cause[r] = "exec") => Len(invoked[r]) = 1
  /\ \A i \in Imms : imm[i].calls = IF imm[i].pc = "idle" THEN 0 ELSE 1

\* a multi and a pipeline each failed in execution after one invocation,
\* and an Immediate call was rejected
C13_Witness ==
  /\ \E r1, r2 \in Runs :
       /\ IsMulti(r1) /\ cause[r1] = "exec" /\ Len(invoked[r1]) = 1
       /\ IsPipeline(r2) /\ cause[r2] = "exec" /\ Len(invoked[r2]) = 1
  /\ \E i \in Imms : imm[i].outcome = "RedisError" /\ imm[i].calls = 1

\* the orders in which the members of a set can be taken
Orders(S) ==
  {f \in [1 .. Cardinality(S) -> S] :
     \A a, b \in 1 .. Cardinality(S) : a # b => f[a] # f[b]}

\* the Immediate calls that completed successfully
Completed == {i \in Callers : imm[i].pc = "done" /\ imm[i].outcome = "success"}

\* running the calls of order one after the other from store st gives each
\* call the value it yielded and ends in the store as it is now
RECURSIVE SerialRun(_, _)
SerialRun(st, order) ==
  IF order = << >> THEN st = store
  ELSE LET i == Head(order) IN
         /\ imm[i].result \in Replies(st, imm[i].name, imm[i].args)
         /\ SerialRun(Apply(st, imm[i].name, imm[i].args), Tail(order))

C15_ReadSeesQueuedWrite ==
  \A r \in Runs :
    ( /\ IsMulti(r) /\ Succeeded(r) /\ ~discarded[r]
      /\ Len(issued[r]) = 2
      /\ issued[r][1].method = "set" /\ issued[r][2].method = "get"
      /\ issued[r][2].args[1] = issued[r][1].args[1] )
    => pair[r].exec = ExecArray(<<"OK", issued[r][1].args[2]>>)

\* a multi wrote v over the other value an Immediate set had stored before,
\* and read v back
C15_Witness ==
  \E r \in Runs, i \in Imms :
    /\ IsMulti(r) /\ Succeeded(r) /\ ~discarded[r]
    /\ Len(issued[r]) = 2
    /\ issued[r][1].method = "set" /\ issued[r][2].method = "get"
    /\ imm[i].pc = "done" /\ imm[i].outcome = "success"
    /\ imm[i].args[2] # issued[r][1].args[2]
    /\ store[issued[r][1].args[1]] = issued[r][1].args[2]
    /\ pair[r].exec.items = <<"OK", issued[r][1].args[2]>>

C17_KindsDifferOnlyInExecute ==
  \A r \in Runs :
    /\ IsMulti(r) => \A n \in 1 .. Len(invoked[r]) : invoked[r][n] = "exec"
    /\ IsPipeline(r) =>
         \A n \in 1 .. Len(invoked[r]) : invoked[r][n] = "execAsPipeline"
    /\ pc[r] \in {"build", "ready"} =>
         /\ handle[r] \in Handles \ {LiveClient}
         /\ invoked[r] = << >>
         /\ Len(hq[handle[r]]) = Len(issued[r])
         /\ \A n \in 1 .. Len(issued[r]) :
              /\ hq[handle[r]][n].method = issued[r][n].method
              /\ hq[handle[r]][n].args = issued[r][n].args

\* a multi and a pipeline queued the same call; the first invoked exec and
\* the second execAsPipeline
C17_Witness ==
  \E r1, r2 \in Runs :
    /\ IsMulti(r1) /\ invoked[r1] = <<"exec">>
    /\ IsPipeline(r2) /\ invoked[r2] = <<"execAsPipeline">>
    /\ Len(issued[r1]) = 1
    /\ issued[r1] = issued[r2]

\* on both surfaces every flat entry forwards to the handle's own method;
\* for every colliding name the flat entry is the handle's method of that
\* name and the json entry the method of its json namespace; and the flat
\* part is the same in whatever order the family tables are spread
FlatNeverJson ==
  \A c \in Handles :
    /\ \A n \in DOMAIN makeRedisCore(c) : makeRedisCore(c)[n].handle = c
    /\ \A n \in DOMAIN makeRedisTx(c) : makeRedisTx(c)[n].handle = c
    /\ DOMAIN makeRedisCoreJson(c) = redisJsonKeys
    /\ DOMAIN makeRedisTxJson(c) = redisJsonKeys
    /\ \A n \in CollidingNames :
         /\ makeRedisCore(c)[n] = [handle |-> c, method |-> n, strategy |-> "AsyncExec"]
         /\ makeRedisTx(c)[n] = [handle |-> c, method |-> n, strategy |-> "QueueExec"]
         /\ makeRedisCoreJson(c)[n] =
              [handle |-> JsonOf(c), method |-> n, strategy |-> "AsyncExec"]
         /\ makeRedisTxJson(c)[n] =
              [handle |-> JsonOf(c), method |-> n, strategy |-> "QueueExec"]
    /\ \A o \in Orders(1 .. Len(ImmediateFamilies(c))) :
         /\ SpreadAll([x \in 1 .. Len(o) |-> ImmediateFamilies(c)[o[x]]]) = makeRedisCore(c)
         /\ SpreadAll([x \in 1 .. Len(o) |-> QueuedFamilies(c)[o[x]]]) = makeRedisTx(c)

\* C18: the JSON group is reached only through the nested json key, on the
\* Immediate and on the Queued surface: a flat call never reaches a method
\* of the json namespace and a json call always does; for every colliding
\* name the flat entry forwards to the handle's own method and the json
\* entry to the method of its json namespace; and the flat part is the same
\* in whatever order the family tables are spread.
C18_JsonOnlyNested ==
  /\ \A i \in Callers :
       imm[i].pc # "idle" =>
         /\ imm[i].ns = "flat" => ~IsJson(imm[i].handle)
         /\ imm[i].ns = "json" => IsJson(imm[i].handle)
         /\ imm[i].method = imm[i].name
  /\ FlatNeverJson

\* get was called as redis.json.get and reached the get of the json
\* namespace, while the flat get of the same surface is the string command
C18_Witness ==
  \E i \in Imms :
    /\ imm[i].name = "get" /\ imm[i].ns = "json"
    /\ imm[i].pc = "done" /\ imm[i].outcome = "success"
    /\ imm[i].handle = JsonOf(LiveClient)
    /\ makeRedisCore(LiveClient)["get"].handle = LiveClient

\* C19: a run whose composition function failed has failed with that
\* function's own RedisError, has invoked no batch-execute operation, has
\* had none of its queued commands applied and has no Outcome Pair.
C19_FailedProgramNeverExecutes ==
  \A r \in Runs :
    cause[r] = "program" =>
      /\ pc[r] = "end"
      /\ outcome[r] = "RedisError"
      /\ invoked[r] = << >>
      /\ app[r] = << >>
      /\ replies[r] = << >>
      /\ pair[r] = NoPair

\* a composition function failed after queuing a write and a read; the key
\* still holds nothing
C19_Witness ==
  \E r \in Runs :
    /\ cause[r] = "program"
    /\ Len(issued[r]) = 2
    /\ issued[r][1].method = "set"
    /\ store[issued[r][1].args[1]] = Nil

\* the handles acquired so far are those of the runs started, one each
OneHandlePerRun ==
  /\ nextHandle - 1 = Cardinality({r \in Runs : handle[r] # LiveClient})
  /\ (\A r \in Runs : pc[r] = "idle") =>
       (nextHandle = 1 /\ \A h \in Handles : hq[h] = << >>)
  /\ \A r \in Runs : invoked[r] # << >> => programResult[r] \in ProgVals

\* a run keeps the handle it acquired and runs its composition function
\* once: it never returns to Build, and never to the state before Execute
RunsOnce ==
  \A r \in Runs :
    /\ handle[r] # LiveClient => handle'[r] = handle[r]
    /\ pc[r] \notin {"idle", "build"} => pc'[r] # "build"
    /\ pc[r] \in {"inflight", "end"} => pc'[r] \in {"inflight", "end"}

\* C20: calling multi or pipeline acquires no handle and queues nothing;
\* every handle acquired is that of a run, one per run, kept for the whole
\* run; a run runs its composition function once, and has invoked a
\* batch-execute operation only after that function returned its value.
C20_LazyAndRerunnable == []OneHandlePerRun /\ [][RunsOnce]_vars

\* an effect was run twice, to the end, each run on a handle of its own,
\* while another effect was built and never run
C20_Witness ==
  /\ MaxRuns >= 2
  /\ effOf[1] = 1 /\ effOf[2] = 1
  /\ effKind[2] # "none"
  /\ Succeeded(1) /\ Succeeded(2)
  /\ handle[1] # handle[2]
  /\ nextHandle = 3

====
